---------------------------- MODULE Spec2Model ----------------------------
(***************************************************************************)
(* Model of the Ansible module system_info (src/system_info.py): one       *)
(* invocation of main(), which runs get_sudo_users, get_ntp_settings,      *)
(* get_dns_settings and get_ipv6_status in sequence on one host and emits  *)
(* either a success result (exit_json) or a failure (fail_json).           *)
(*                                                                         *)
(* Text is modelled as Python sees it: a str is a sequence of              *)
(* one-character strings, and strip/split/startswith/in are computed on    *)
(* the characters.  The host (files, binaries, command outputs) is the     *)
(* input; it is chosen in Init and never changes during the invocation.    *)
(***************************************************************************)
EXTENDS Integers, Sequences, FiniteSets, TLC

VARIABLES host, pc, result, ntp_info, ipv6_info, idx, calls, output, raised

vars == <<host, pc, result, ntp_info, ipv6_info, idx, calls, output, raised>>

---------------------------------------------------------------------------
(* Python str operations, on sequences of characters.                      *)

\* the characters that occur in the texts of the model
Char == {"\t", "\n",
         " ", "!", "\"", "#", "$", "%", "&", "'", "(", ")", "*", "+", ",", "-", ".", "/",
         "0", "1", "2", "3", "4", "5", "6", "7", "8", "9", ":", ";", "<", "=", ">", "?",
         "@", "A", "B", "C", "D", "E", "F", "G", "H", "I", "J", "K", "L", "M", "N", "O",
         "P", "Q", "R", "S", "T", "U", "V", "W", "X", "Y", "Z", "[", "\\", "]", "^", "_",
         "a", "b", "c", "d", "e", "f", "g", "h", "i", "j", "k", "l", "m", "n", "o", "p",
         "q", "r", "s", "t", "u", "v", "w", "x", "y", "z", "{", "|", "}", "~"}

\* str
Str == Seq(Char)

\* the characters str.strip() and str.split() treat as whitespace
WS == {" ", "\t", "\n"}

LStrip[s \in Str] == IF s = <<>> THEN s
                     ELSE IF Head(s) \in WS THEN LStrip[Tail(s)] ELSE s

RStrip[s \in Str] == IF s = <<>> THEN s
                     ELSE IF s[Len(s)] \in WS THEN RStrip[SubSeq(s, 1, Len(s) - 1)] ELSE s

\* s.strip()
Strip[s \in Str] == RStrip[LStrip[s]]

\* s.startswith(p)
StartsWith[s \in Str, p \in Str] == Len(s) >= Len(p) /\ SubSeq(s, 1, Len(p)) = p

\* p in s
Contains[s \in Str, p \in Str] ==
    \E i \in 0..(Len(s) - Len(p)) : SubSeq(s, i + 1, i + Len(p)) = p

\* the index of the first character of s at or after i that is in cs, or Len(s)+1
FirstIn[s \in Str, cs \in SUBSET Char, i \in Nat] ==
    IF i > Len(s) THEN i
    ELSE IF s[i] \in cs THEN i ELSE FirstIn[s, cs, i + 1]

\* s.split(c): the fields between occurrences of c, empty fields kept
SplitOn[s \in Str, c \in Char] ==
    IF FirstIn[s, {c}, 1] > Len(s) THEN <<s>>
    ELSE <<SubSeq(s, 1, FirstIn[s, {c}, 1] - 1)>>
         \o SplitOn[SubSeq(s, FirstIn[s, {c}, 1] + 1, Len(s)), c]

\* s.split(): the maximal runs of non-whitespace characters
Split[s \in Str] ==
    IF LStrip[s] = <<>> THEN <<>>
    ELSE <<SubSeq(LStrip[s], 1, FirstIn[LStrip[s], WS, 1] - 1)>>
         \o Split[SubSeq(LStrip[s], FirstIn[LStrip[s], WS, 1], Len(LStrip[s]))]

\* ''.join(lines): the text of a file or of a command's stdout
Concat[ls \in Seq(Str)] == IF ls = <<>> THEN <<>> ELSE Head(ls) \o Concat[Tail(ls)]

\* the sequences over S of length at most n
SeqUpTo(S, n) == UNION {[1..k -> S] : k \in 0..n}

\* the elements of a sequence
Range(s) == {s[i] : i \in 1..Len(s)}

---------------------------------------------------------------------------
(* Files.  A file is [st, lines]: st is "missing" (os.path.exists is       *)
(* false, open raises FileNotFoundError), "denied" (open raises            *)
(* PermissionError) or "ok"; lines are its lines, each with its newline.   *)

Missing == [st |-> "missing", lines |-> <<>>]
Denied  == [st |-> "denied", lines |-> <<>>]
File(ls) == [st |-> "ok", lines |-> ls]

\* os.path.exists(path)
Exists(f) == f.st # "missing"

\* the command that module.run_command is given, and what it returns
Cmd(rc, out) == [rc |-> rc, out |-> out]

---------------------------------------------------------------------------
(* get_sudo_users                                                          *)

\* the literals of lines 82-89
SudoPatterns == {<<"A","L","L","=","(","A","L","L">>, <<"A","L","L"," ","="," ","(","A","L","L">>}
SudoExcluded == {<<"r","o","o","t">>, <<"%","s","u","d","o">>, <<"%","w","h","e","e","l">>, <<"%","a","d","m","i","n">>}
SudoGroups == {<<"s","u","d","o",":">>, <<"w","h","e","e","l",":">>}

\* lines 80-90: the users one line of a sudoers file adds
SudoersLineUsers(raw) ==
    LET line == Strip[raw]
    IN  IF StartsWith[line, <<"#">>] \/ line = <<>> THEN <<>>
        ELSE IF \E p \in SudoPatterns : Contains[line, p]
             THEN LET user == Split[line][1]
                  IN  IF user \notin SudoExcluded /\ ~StartsWith[user, <<"%">>]
                      THEN <<user>> ELSE <<>>
             ELSE <<>>

\* lines 77-92: the users one sudoers file adds; a file that cannot be
\* opened raises IOError, which is caught, and adds nothing
RECURSIVE SudoersLinesUsers(_)
SudoersLinesUsers(ls) == IF ls = <<>> THEN <<>>
                         ELSE SudoersLineUsers(Head(ls)) \o SudoersLinesUsers(Tail(ls))

SudoersFileUsers(f) == IF f.st = "ok" THEN SudoersLinesUsers(f.lines) ELSE <<>>

\* line 101: parts[3].split(',')
GroupMembers(field) == SplitOn[field, ","]

\* lines 98-101: the users one line of /etc/group adds
GroupLineUsers(line) ==
    IF \E g \in SudoGroups : StartsWith[line, g]
    THEN LET parts == SplitOn[Strip[line], ":"]
         IN  IF Len(parts) >= 4 /\ parts[4] # <<>> THEN GroupMembers(parts[4]) ELSE <<>>
    ELSE <<>>

RECURSIVE GroupLinesUsers(_)
GroupLinesUsers(ls) == IF ls = <<>> THEN <<>>
                       ELSE GroupLineUsers(Head(ls)) \o GroupLinesUsers(Tail(ls))

\* lines 95-103
GroupFileUsers(f) == IF f.st = "ok" THEN GroupLinesUsers(f.lines) ELSE <<>>

\* lines 66-74: sudoers_files.  The drop-in directory d is [st, entries]:
\* st is "absent", "unlistable" (os.listdir raises PermissionError) or "ok";
\* an entry is [isfile, file].
RECURSIVE DropInFiles(_)
DropInFiles(es) == IF es = <<>> THEN <<>>
                   ELSE (IF Head(es).isfile THEN <<Head(es).file>> ELSE <<>>)
                        \o DropInFiles(Tail(es))

SudoersFiles(h) == <<h.sudoers>> \o
                   (IF h.sudoers_d.st # "absent" THEN DropInFiles(h.sudoers_d.entries) ELSE <<>>)

\* line 71: os.listdir outside any try block raises on a directory that
\* exists and cannot be listed
ListdirRaises(h) == h.sudoers_d.st = "unlistable"

RECURSIVE AllSudoersUsers(_)
AllSudoersUsers(fs) == IF fs = <<>> THEN <<>>
                       ELSE SudoersFileUsers(Head(fs)) \o AllSudoersUsers(Tail(fs))

\* lines 61-105: the returned list(set(sudo_users)), as a set
get_sudo_users(h) == Range(AllSudoersUsers(SudoersFiles(h)) \o GroupFileUsers(h.group))


---------------------------------------------------------------------------
(* get_ntp_settings                                                        *)

\* lines 110-115
NtpInit == [service |-> "unknown", enabled |-> FALSE, servers |-> <<>>,
            status |-> <<"u","n","k","n","o","w","n">>]

\* lines 132-135 and 152-155: the server one line of a config file adds,
\* for the keywords kws
ServerLine(line, kws) ==
    IF \E k \in kws : StartsWith[Strip[line], k]
    THEN LET parts == Split[line]
         IN  IF Len(parts) >= 2 THEN <<parts[2]>> ELSE <<>>
    ELSE <<>>

RECURSIVE ServerLines(_, _)
ServerLines(ls, kws) == IF ls = <<>> THEN <<>>
                        ELSE ServerLine(Head(ls), kws) \o ServerLines(Tail(ls), kws)

\* lines 128-137: a config file that is missing or cannot be opened adds nothing
ChronyServers(f) == IF f.st = "ok" THEN ServerLines(f.lines, {<<"s","e","r","v","e","r">>, <<"p","o","o","l">>}) ELSE <<>>

\* lines 148-157
NtpdServers(f) == IF f.st = "ok" THEN ServerLines(f.lines, {<<"s","e","r","v","e","r">>}) ELSE <<>>

\* lines 171-174
TimesyncLine(line) ==
    IF Contains[line, <<"S","e","r","v","e","r","N","a","m","e","=">>]
    THEN LET server == Strip[SplitOn[line, "="][2]]
         IN  IF server # <<>> THEN <<server>> ELSE <<>>
    ELSE <<>>

RECURSIVE TimesyncLines(_)
TimesyncLines(ls) == IF ls = <<>> THEN <<>>
                     ELSE TimesyncLine(Head(ls)) \o TimesyncLines(Tail(ls))

\* lines 168-174
TimesyncServers(c) == IF c.rc = 0 THEN TimesyncLines(SplitOn[c.out, "\n"]) ELSE <<>>

\* lines 124-125, 145-146, 165-166
WithStatus(info, out) == [info EXCEPT !.enabled = (Strip[out] = <<"a","c","t","i","v","e">>),
                                      !.status = Strip[out]]

\* line 119: chronyd is taken when its binary is found
ChronydWins(rc, info) == rc = 0

\* line 141 without the test of ntp_info['service']
NtpdWinsAlways(rc, info) == rc = 0

\* line 141
NtpdWins(rc, info) == rc = 0 /\ info.service = "unknown"

\* line 161 with the test of rc dropped
TimesyncdWinsUnprobed(rc, info) == info.service = "unknown"

\* line 161
TimesyncdWins(rc, info) == rc = 0 /\ info.service = "unknown"

---------------------------------------------------------------------------
(* get_dns_settings                                                        *)

\* line 199 with parts[1] in place of parts[1:]
SearchDomainsFirst(parts) == <<parts[2]>>

\* line 199: parts[1:]
SearchDomains(parts) == Tail(parts)

\* lines 191-199: what one line adds to each list
DnsLine(raw) ==
    LET line == Strip[raw]
        parts == Split[line]
    IN  IF StartsWith[line, <<"n","a","m","e","s","e","r","v","e","r">>]
        THEN [ns |-> IF Len(parts) >= 2 THEN <<parts[2]>> ELSE <<>>, sd |-> <<>>]
        ELSE IF StartsWith[line, <<"s","e","a","r","c","h">>]
             THEN [ns |-> <<>>, sd |-> IF Len(parts) >= 2 THEN SearchDomains(parts) ELSE <<>>]
             ELSE [ns |-> <<>>, sd |-> <<>>]

RECURSIVE DnsLines(_)
DnsLines(ls) == IF ls = <<>> THEN [ns |-> <<>>, sd |-> <<>>]
                ELSE LET a == DnsLine(Head(ls))
                         b == DnsLines(Tail(ls))
                     IN  [ns |-> a.ns \o b.ns, sd |-> a.sd \o b.sd]

\* lines 179-203
get_dns_settings(h) ==
    LET d == IF h.resolv_conf.st = "ok" THEN DnsLines(h.resolv_conf.lines)
             ELSE [ns |-> <<>>, sd |-> <<>>]
    IN  [nameservers |-> d.ns, search_domains |-> d.sd, resolv_conf |-> "/etc/resolv.conf"]

---------------------------------------------------------------------------
(* get_ipv6_status                                                         *)

\* lines 208-212: the dict has no 'status' key until line 259 or 261 sets it
Ipv6Init == [disabled |-> FALSE, disable_method |-> <<>>, sysctl_values |-> <<>>]

\* lines 215-219
sysctl_params == <<"net.ipv6.conf.all.disable_ipv6",
                   "net.ipv6.conf.default.disable_ipv6",
                   "net.ipv6.conf.lo.disable_ipv6">>

\* line 222: f'sysctl {param}'
SysctlCmd == <<"sysctl net.ipv6.conf.all.disable_ipv6",
               "sysctl net.ipv6.conf.default.disable_ipv6",
               "sysctl net.ipv6.conf.lo.disable_ipv6">>

\* line 224
SysctlValue(out) == LET fields == SplitOn[Strip[out], "="]
                    IN  Strip[fields[Len(fields)]]

\* lines 223-228: one turn of the loop; sysctl_values is kept as the
\* sequence of <<param, value>> pairs in insertion order
SysctlStep(info, param, c) ==
    IF c.rc = 0
    THEN LET value == SysctlValue(c.out)
             seen == [info EXCEPT !.sysctl_values = Append(@, <<param, value>>)]
         IN  IF value = <<"1">>
             THEN [seen EXCEPT !.disabled = TRUE,
                               !.disable_method = Append(@, "sysctl")]
             ELSE seen
    ELSE info

\* lines 238-247: one grub file
GrubStep(info, f) ==
    IF f.st = "ok" /\ Contains[Concat[f.lines], <<"i","p","v","6",".","d","i","s","a","b","l","e","=","1">>]
    THEN [info EXCEPT !.disabled = TRUE,
                      !.disable_method = IF "grub" \in Range(@) THEN @ ELSE Append(@, "grub")]
    ELSE info

\* lines 237-247: the three grub files in order
RECURSIVE GrubPass(_, _)
GrubPass(info, fs) == IF fs = <<>> THEN info
                      ELSE GrubPass(GrubStep(info, Head(fs)), Tail(fs))

\* lines 253-257
has_ipv6(out) == \E line \in Range(SplitOn[out, "\n"]) :
                    Contains[line, <<"i","n","e","t","6">>] /\ ~Contains[line, <<":",":","1">>]

\* adds key k with value v to a dict held as a record
WithKey(d, k, v) == [x \in DOMAIN d \cup {k} |-> IF x = k THEN v ELSE d[x]]

\* lines 250-262
LivePass(info, c) ==
    IF c.rc = 0 /\ Strip[c.out] # <<>>
    THEN IF ~has_ipv6(c.out) /\ info.disabled
         THEN WithKey(info, "status", "disabled")
         ELSE IF has_ipv6(c.out)
              THEN [WithKey(info, "status", "enabled") EXCEPT !.disabled = FALSE]
              ELSE info
    ELSE info


---------------------------------------------------------------------------
(* main: one invocation.                                                   *)

\* what exit_json and fail_json hand to the caller
\* line 290 with the gathered blocks passed along with the message
fail_json_with_result(msg) == [failed |-> TRUE, msg |-> msg,
                               sudo_users |-> result.sudo_users,
                               ntp_settings |-> result.ntp_settings,
                               dns_settings |-> result.dns_settings,
                               ipv6_status |-> result.ipv6_status]

\* line 290: module.fail_json(msg=str(e))
fail_json(msg) == [failed |-> TRUE, msg |-> msg]

\* line 287: module.exit_json(**result)
exit_json(res) == res

\* lines 273-279: result before any collector has run
ResultInit == [changed |-> FALSE, sudo_users |-> {}, ntp_settings |-> <<>>,
               dns_settings |-> <<>>, ipv6_status |-> <<>>]

\* the commands the module runs, in the words of the source
WhichCmd == [chronyd |-> "which chronyd", ntpd |-> "which ntpd",
             timesyncd |-> "which systemd-timesyncd"]
ActiveCmd == [chronyd |-> "systemctl is-active chronyd", ntpd |-> "systemctl is-active ntpd",
              timesyncd |-> "systemctl is-active systemd-timesyncd"]
ShowTimesyncCmd == "timedatectl show-timesync --all"
Ip6Cmd == "ip -6 addr show"
Commands == {WhichCmd[b] : b \in DOMAIN WhichCmd} \cup {ActiveCmd[b] : b \in DOMAIN ActiveCmd}
            \cup {ShowTimesyncCmd, Ip6Cmd} \cup {SysctlCmd[i] : i \in 1..3}

Collectors == {"sudo", "ntp", "dns", "ipv6"}

Init0 == /\ pc = "sudo"
         /\ result = ResultInit
         /\ ntp_info = <<>>
         /\ ipv6_info = <<>>
         /\ idx = 1
         /\ calls = <<>>
         /\ output = <<>>
         /\ raised = "none"

\* module.run_command(cmd): the call is issued with no timeout argument and
\* returns when the child process ends; a child that never ends
\* (host.stalled) leaves the invocation blocked in the call
run_command(cmd) == /\ host.stalled # cmd
                    /\ calls' = Append(calls, cmd)

\* lines 289-290: an exception raised in collector c reaches the handler
Except(c, msg) == /\ output' = Append(output, fail_json(msg))
                  /\ raised' = c
                  /\ pc' = "done"
                  /\ UNCHANGED result

\* an exception no collector handles, raised inside collector c
\* (host.fault = c), e.g. MemoryError
Faults(c) == host.fault = c

\* line 282
GetSudoUsers ==
    /\ pc = "sudo"
    /\ IF ListdirRaises(host)
       THEN Except("sudo", "[Errno 13] Permission denied: '/etc/sudoers.d'")
       ELSE IF Faults("sudo") THEN Except("sudo", "MemoryError")
       ELSE /\ result' = [result EXCEPT !.sudo_users = get_sudo_users(host)]
            /\ pc' = "which_chronyd"
            /\ UNCHANGED <<output, raised>>
    /\ UNCHANGED <<host, ntp_info, ipv6_info, idx, calls>>

\* lines 283, 110-120
WhichChronyd ==
    /\ pc = "which_chronyd"
    /\ IF Faults("ntp")
       THEN Except("ntp", "MemoryError") /\ UNCHANGED <<ntp_info, calls>>
       ELSE /\ run_command(WhichCmd.chronyd)
            /\ IF ChronydWins(host.which.chronyd, NtpInit)
               THEN ntp_info' = [NtpInit EXCEPT !.service = "chronyd"] /\ pc' = "active_chronyd"
               ELSE ntp_info' = NtpInit /\ pc' = "which_ntpd"
            /\ UNCHANGED <<result, output, raised>>
    /\ UNCHANGED <<host, ipv6_info, idx>>

\* lines 123-137
ActiveChronyd ==
    /\ pc = "active_chronyd"
    /\ run_command(ActiveCmd.chronyd)
    /\ ntp_info' = [WithStatus(ntp_info, host.is_active.chronyd)
                      EXCEPT !.servers = @ \o ChronyServers(host.chrony_conf)]
    /\ pc' = "which_ntpd"
    /\ UNCHANGED <<host, result, ipv6_info, idx, output, raised>>

\* lines 140-142
WhichNtpd ==
    /\ pc = "which_ntpd"
    /\ run_command(WhichCmd.ntpd)
    /\ IF NtpdWins(host.which.ntpd, ntp_info)
       THEN ntp_info' = [ntp_info EXCEPT !.service = "ntpd"] /\ pc' = "active_ntpd"
       ELSE ntp_info' = ntp_info /\ pc' = "which_timesyncd"
    /\ UNCHANGED <<host, result, ipv6_info, idx, output, raised>>

\* lines 144-157
ActiveNtpd ==
    /\ pc = "active_ntpd"
    /\ run_command(ActiveCmd.ntpd)
    /\ ntp_info' = [WithStatus(ntp_info, host.is_active.ntpd)
                      EXCEPT !.servers = @ \o NtpdServers(host.ntp_conf)]
    /\ pc' = "which_timesyncd"
    /\ UNCHANGED <<host, result, ipv6_info, idx, output, raised>>

\* lines 160-162, and lines 176 and 283 when systemd-timesyncd is not taken
WhichTimesyncd ==
    /\ pc = "which_timesyncd"
    /\ run_command(WhichCmd.timesyncd)
    /\ IF TimesyncdWins(host.which.timesyncd, ntp_info)
       THEN /\ ntp_info' = [ntp_info EXCEPT !.service = "systemd-timesyncd"]
            /\ pc' = "active_timesyncd"
            /\ UNCHANGED result
       ELSE /\ ntp_info' = ntp_info
            /\ result' = [result EXCEPT !.ntp_settings = ntp_info]
            /\ pc' = "dns"
    /\ UNCHANGED <<host, ipv6_info, idx, output, raised>>

\* lines 164-166
ActiveTimesyncd ==
    /\ pc = "active_timesyncd"
    /\ run_command(ActiveCmd.timesyncd)
    /\ ntp_info' = WithStatus(ntp_info, host.is_active.timesyncd)
    /\ pc' = "show_timesync"
    /\ UNCHANGED <<host, result, ipv6_info, idx, output, raised>>

\* lines 168-176, 283
ShowTimesync ==
    /\ pc = "show_timesync"
    /\ run_command(ShowTimesyncCmd)
    /\ ntp_info' = [ntp_info EXCEPT !.servers = @ \o TimesyncServers(host.timesync)]
    /\ result' = [result EXCEPT !.ntp_settings = ntp_info']
    /\ pc' = "dns"
    /\ UNCHANGED <<host, ipv6_info, idx, output, raised>>

\* line 284
GetDnsSettings ==
    /\ pc = "dns"
    /\ IF Faults("dns") THEN Except("dns", "MemoryError")
       ELSE /\ result' = [result EXCEPT !.dns_settings = get_dns_settings(host)]
            /\ pc' = "sysctl"
            /\ UNCHANGED <<output, raised>>
    /\ UNCHANGED <<host, ntp_info, ipv6_info, idx, calls>>

\* lines 285, 208-228: one turn of the sysctl loop
Sysctl ==
    /\ pc = "sysctl"
    /\ IF Faults("ipv6") /\ idx = 1
       THEN Except("ipv6", "MemoryError") /\ UNCHANGED <<ipv6_info, idx, calls>>
       ELSE /\ run_command(SysctlCmd[idx])
            /\ ipv6_info' = SysctlStep(IF idx = 1 THEN Ipv6Init ELSE ipv6_info,
                                       sysctl_params[idx], host.sysctl[idx])
            /\ IF idx < Len(sysctl_params)
               THEN idx' = idx + 1 /\ pc' = "sysctl"
               ELSE idx' = idx /\ pc' = "grub"
            /\ UNCHANGED <<result, output, raised>>
    /\ UNCHANGED <<host, ntp_info>>

\* lines 231-247
Grub ==
    /\ pc = "grub"
    /\ ipv6_info' = GrubPass(ipv6_info, host.grub)
    /\ pc' = "ip6"
    /\ UNCHANGED <<host, result, ntp_info, idx, calls, output, raised>>

\* lines 250-264, 285
Ip6AddrShow ==
    /\ pc = "ip6"
    /\ run_command(Ip6Cmd)
    /\ ipv6_info' = LivePass(ipv6_info, host.ip6)
    /\ result' = [result EXCEPT !.ipv6_status = ipv6_info']
    /\ pc' = "exit"
    /\ UNCHANGED <<host, ntp_info, idx, output, raised>>

\* line 287
ExitJson ==
    /\ pc = "exit"
    /\ output' = Append(output, exit_json(result))
    /\ pc' = "done"
    /\ UNCHANGED <<host, result, ntp_info, ipv6_info, idx, calls, raised>>

NtpActions == \/ WhichChronyd \/ ActiveChronyd \/ WhichNtpd \/ ActiveNtpd
              \/ WhichTimesyncd \/ ActiveTimesyncd \/ ShowTimesync

Ipv6Actions == Sysctl \/ Grub \/ Ip6AddrShow

Next == GetSudoUsers \/ NtpActions \/ GetDnsSettings \/ Ipv6Actions \/ ExitJson


---------------------------------------------------------------------------
(* Hosts: the inputs of one invocation.                                    *)

MaxSudoersLines == 1
MaxDropIns == 1
MaxGroupLines == 2
MaxConfLines == 2
MaxDnsLines == 2
MaxIpLines == 2

Host(s, n, d, v, fault, stalled) ==
    [sudoers |-> s.sudoers, sudoers_d |-> s.sudoers_d, group |-> s.group,
     which |-> n.which, is_active |-> n.is_active, chrony_conf |-> n.chrony_conf,
     ntp_conf |-> n.ntp_conf, timesync |-> n.timesync,
     resolv_conf |-> d,
     sysctl |-> v.sysctl, grub |-> v.grub, ip6 |-> v.ip6,
     fault |-> fault, stalled |-> stalled]

\* /etc/sudoers, /etc/sudoers.d and /etc/group
SudoersLines == {<<"#"," ","b","o","b"," ","A","L","L","=","(","A","L","L",")"," ","A","L","L","\n">>, <<"r","o","o","t"," ","A","L","L","=","(","A","L","L",":","A","L","L",")"," ","A","L","L","\n">>,
                 <<"a","l","i","c","e"," ","A","L","L","=","(","A","L","L",")"," ","N","O","P","A","S","S","W","D",":"," ","A","L","L","\n">>, <<"%","a","d","m","i","n"," ","A","L","L","=","(","A","L","L",")"," ","A","L","L","\n">>,
                 <<"b","o","b"," ","A","L","L"," ","="," ","(","A","L","L",")"," ","A","L","L","\n">>}
DropInEntries == {[isfile |-> FALSE, file |-> Missing], [isfile |-> TRUE, file |-> Denied],
                  [isfile |-> TRUE, file |-> File(<<<<"c","a","r","o","l"," ","A","L","L","=","(","A","L","L",")"," ","A","L","L","\n">>>>)]}
GroupLines == {<<"s","u","d","o",":","x",":","2","7",":","a","l","i","c","e",",","b","o","b","\n">>, <<"w","h","e","e","l",":","x",":","1","0",":","d","a","v","e","\n">>, <<"s","u","d","o",":","x",":","2","7",":","\n">>,
               <<"a","d","m",":","x",":","4",":","e","r","i","n","\n">>, <<"w","h","e","e","l",":","x",":","1","0",":","d","a","v","e",",","\n">>, <<"s","u","d","o",":","x",":","2","7",":","a","l","i","c","e",",",",","b","o","b","\n">>}

Files(lines, n) == {Missing, Denied} \cup {File(ls) : ls \in SeqUpTo(lines, n)}

SudoDirs == {[st |-> "absent", entries |-> <<>>], [st |-> "unlistable", entries |-> <<>>]}
            \cup {[st |-> "ok", entries |-> es] : es \in SeqUpTo(DropInEntries, MaxDropIns)}

SudoParts == [sudoers : Files(SudoersLines, MaxSudoersLines), sudoers_d : SudoDirs,
              group : Files(GroupLines, MaxGroupLines)]

SudoQuiet == [sudoers |-> Missing, sudoers_d |-> [st |-> "absent", entries |-> <<>>],
              group |-> Missing]

\* the time-sync backends: each is absent, or present and active or not
BackendStates == {[rc |-> 1, out |-> <<"i","n","a","c","t","i","v","e","\n">>], [rc |-> 0, out |-> <<"a","c","t","i","v","e","\n">>],
                  [rc |-> 0, out |-> <<"i","n","a","c","t","i","v","e","\n">>]}
Backends == {"chronyd", "ntpd", "timesyncd"}
ChronyLines == {<<"s","e","r","v","e","r"," ","a",".","b"," ","i","b","u","r","s","t","\n">>, <<"p","o","o","l"," ","p",".","q","\n">>}
NtpConfLines == {<<"s","e","r","v","e","r"," ","n",".","t","\n">>, <<"p","o","o","l"," ","x",".","y","\n">>}
TimesyncOutLines == {<<"S","e","r","v","e","r","N","a","m","e","=","t",".","s","\n">>, <<"S","e","r","v","e","r","N","a","m","e","=","\n">>}
TimesyncOuts == {Cmd(1, <<>>)} \cup {Cmd(0, Concat[ls]) : ls \in SeqUpTo(TimesyncOutLines, MaxConfLines)}

NtpPart(b, cc, nc, ts) ==
    [which |-> [x \in Backends |-> b[x].rc], is_active |-> [x \in Backends |-> b[x].out],
     chrony_conf |-> cc, ntp_conf |-> nc, timesync |-> ts]

NtpParts == {NtpPart(b, cc, nc, ts) : b \in [Backends -> BackendStates],
                                      cc \in Files(ChronyLines, MaxConfLines),
                                      nc \in Files(NtpConfLines, MaxConfLines),
                                      ts \in TimesyncOuts}

NtpQuiet == NtpPart([x \in Backends |-> [rc |-> 1, out |-> <<"i","n","a","c","t","i","v","e","\n">>]],
                    Missing, Missing, Cmd(1, <<>>))

\* /etc/resolv.conf
ResolvLines == {<<"n","a","m","e","s","e","r","v","e","r"," ","8",".","8",".","8",".","8","\n">>, <<"n","a","m","e","s","e","r","v","e","r"," ","1",".","1",".","1",".","1","\n">>, <<"s","e","a","r","c","h"," ","a",".","c","o","m"," ","b",".","c","o","m","\n">>,
                <<" "," ","s","e","a","r","c","h"," ","c",".","o","r","g","\n">>, <<"#"," ","n","a","m","e","s","e","r","v","e","r"," ","9",".","9",".","9",".","9","\n">>, <<"o","p","t","i","o","n","s"," ","n","d","o","t","s",":","2","\n">>,
                <<"n","a","m","e","s","e","r","v","e","r","\n">>}
DnsParts == Files(ResolvLines, MaxDnsLines)

\* sysctl, the grub files and ip
SysctlOuts == [i \in 1..3 |->
    CASE i = 1 -> {Cmd(255, <<>>), Cmd(0, <<"n","e","t",".","i","p","v","6",".","c","o","n","f",".","a","l","l",".","d","i","s","a","b","l","e","_","i","p","v","6"," ","="," ","0","\n">>),
                   Cmd(0, <<"n","e","t",".","i","p","v","6",".","c","o","n","f",".","a","l","l",".","d","i","s","a","b","l","e","_","i","p","v","6"," ","="," ","1","\n">>)}
      [] i = 2 -> {Cmd(255, <<>>), Cmd(0, <<"n","e","t",".","i","p","v","6",".","c","o","n","f",".","d","e","f","a","u","l","t",".","d","i","s","a","b","l","e","_","i","p","v","6"," ","="," ","0","\n">>),
                   Cmd(0, <<"n","e","t",".","i","p","v","6",".","c","o","n","f",".","d","e","f","a","u","l","t",".","d","i","s","a","b","l","e","_","i","p","v","6"," ","="," ","1","\n">>)}
      [] i = 3 -> {Cmd(255, <<>>), Cmd(0, <<"n","e","t",".","i","p","v","6",".","c","o","n","f",".","l","o",".","d","i","s","a","b","l","e","_","i","p","v","6"," ","="," ","0","\n">>),
                   Cmd(0, <<"n","e","t",".","i","p","v","6",".","c","o","n","f",".","l","o",".","d","i","s","a","b","l","e","_","i","p","v","6"," ","="," ","1","\n">>)}]
GrubDisables == File(<<<<"G","R","U","B","_","T","I","M","E","O","U","T","=","5","\n">>, <<"G","R","U","B","_","C","M","D","L","I","N","E","_","L","I","N","U","X","=","\"","i","p","v","6",".","d","i","s","a","b","l","e","=","1"," ","q","u","i","e","t","\"","\n">>>>)
GrubPlain == File(<<<<"G","R","U","B","_","C","M","D","L","I","N","E","_","L","I","N","U","X","=","\"","q","u","i","e","t","\"","\n">>>>)
Grubs == {<<Missing, Missing, Missing>>, <<GrubPlain, Missing, Missing>>,
          <<GrubDisables, Missing, Missing>>, <<GrubDisables, GrubDisables, Missing>>,
          <<Denied, GrubPlain, GrubDisables>>, <<GrubPlain, Missing, GrubPlain>>}
Ip6Lines == {<<"1",":"," ","l","o",":"," ","<","L","O","O","P","B","A","C","K",",","U","P",">","\n">>, <<" "," "," "," ","i","n","e","t","6"," ",":",":","1","/","1","2","8"," ","s","c","o","p","e"," ","h","o","s","t","\n">>,
             <<" "," "," "," ","i","n","e","t","6"," ","f","e","8","0",":",":","1","/","6","4"," ","s","c","o","p","e"," ","l","i","n","k","\n">>, <<" "," "," "," ","i","n","e","t","6"," ","2","0","0","1",":","d","b","8",":",":","5","/","6","4"," ","s","c","o","p","e"," ","g","l","o","b","a","l","\n">>}
Ip6Outs == {Cmd(1, <<>>)} \cup {Cmd(0, Concat[ls]) : ls \in SeqUpTo(Ip6Lines, MaxIpLines)}

Ipv6Parts == {[sysctl |-> <<a, b, c>>, grub |-> g, ip6 |-> o] :
                 a \in SysctlOuts[1], b \in SysctlOuts[2], c \in SysctlOuts[3],
                 g \in Grubs, o \in Ip6Outs}

Ipv6Quiet == [sysctl |-> <<Cmd(255, <<>>), Cmd(255, <<>>), Cmd(255, <<>>)>>,
              grub |-> <<Missing, Missing, Missing>>, ip6 |-> Cmd(1, <<>>)]

---------------------------------------------------------------------------
(* Specifications.                                                         *)

\* get_sudo_users on every combination of its sources
InitSudo == Init0 /\ host \in {Host(s, NtpQuiet, Missing, Ipv6Quiet, "none", "none") : s \in SudoParts}
NextSudo == GetSudoUsers
SpecSudo == InitSudo /\ [][NextSudo]_vars

\* get_ntp_settings on every combination of backends
InitNtp == Init0 /\ host \in {Host(SudoQuiet, n, Missing, Ipv6Quiet, "none", "none") : n \in NtpParts}
NextNtp == GetSudoUsers \/ NtpActions
SpecNtp == InitNtp /\ [][NextNtp]_vars

\* get_dns_settings on every resolver file
InitDns == Init0 /\ host \in {Host(SudoQuiet, NtpQuiet, d, Ipv6Quiet, "none", "none") : d \in DnsParts}
NextDns == GetSudoUsers \/ WhichChronyd \/ WhichNtpd \/ WhichTimesyncd \/ GetDnsSettings
SpecDns == InitDns /\ [][NextDns]_vars

\* get_ipv6_status on every combination of its three evidence sources
InitIpv6 == Init0 /\ host \in {Host(SudoQuiet, NtpQuiet, Missing, v, "none", "none") : v \in Ipv6Parts}
NextIpv6 == NextDns \/ Ipv6Actions \/ ExitJson
SpecIpv6 == InitIpv6 /\ [][NextIpv6]_vars

\* whole invocations, on hosts that combine typical states of each source
\* with one disruption: an unhandled exception in one collector, or one
\* command whose child process never ends
MainSudo == {SudoQuiet,
             [SudoQuiet EXCEPT !.sudoers_d = [st |-> "unlistable", entries |-> <<>>]],
             [sudoers |-> File(<<<<"a","l","i","c","e"," ","A","L","L","=","(","A","L","L",")"," ","N","O","P","A","S","S","W","D",":"," ","A","L","L","\n">>>>),
              sudoers_d |-> [st |-> "ok", entries |->
                               <<[isfile |-> TRUE, file |-> File(<<<<"c","a","r","o","l"," ","A","L","L","=","(","A","L","L",")"," ","A","L","L","\n">>>>)]>>],
              group |-> File(<<<<"s","u","d","o",":","x",":","2","7",":","a","l","i","c","e",",","b","o","b","\n">>>>)]}
MainNtp == {NtpPart(b, File(<<<<"s","e","r","v","e","r"," ","a",".","b"," ","i","b","u","r","s","t","\n">>>>), File(<<<<"s","e","r","v","e","r"," ","n",".","t","\n">>>>),
                    Cmd(0, <<"S","e","r","v","e","r","N","a","m","e","=","t",".","s","\n">>)) :
               b \in [Backends -> {[rc |-> 1, out |-> <<"i","n","a","c","t","i","v","e","\n">>],
                                   [rc |-> 0, out |-> <<"a","c","t","i","v","e","\n">>]}]}
MainDns == {Missing, File(<<<<"n","a","m","e","s","e","r","v","e","r"," ","8",".","8",".","8",".","8","\n">>, <<"s","e","a","r","c","h"," ","a",".","c","o","m"," ","b",".","c","o","m","\n">>>>)}
MainIpv6 == {Ipv6Quiet,
             [sysctl |-> <<Cmd(0, <<"n","e","t",".","i","p","v","6",".","c","o","n","f",".","a","l","l",".","d","i","s","a","b","l","e","_","i","p","v","6"," ","="," ","1","\n">>),
                           Cmd(0, <<"n","e","t",".","i","p","v","6",".","c","o","n","f",".","d","e","f","a","u","l","t",".","d","i","s","a","b","l","e","_","i","p","v","6"," ","="," ","1","\n">>),
                           Cmd(0, <<"n","e","t",".","i","p","v","6",".","c","o","n","f",".","l","o",".","d","i","s","a","b","l","e","_","i","p","v","6"," ","="," ","0","\n">>)>>,
              grub |-> <<GrubDisables, Missing, Missing>>,
              ip6 |-> Cmd(0, <<" "," "," "," ","i","n","e","t","6"," ",":",":","1","/","1","2","8"," ","s","c","o","p","e"," ","h","o","s","t","\n">>)],
             [sysctl |-> <<Cmd(0, <<"n","e","t",".","i","p","v","6",".","c","o","n","f",".","a","l","l",".","d","i","s","a","b","l","e","_","i","p","v","6"," ","="," ","0","\n">>),
                           Cmd(0, <<"n","e","t",".","i","p","v","6",".","c","o","n","f",".","d","e","f","a","u","l","t",".","d","i","s","a","b","l","e","_","i","p","v","6"," ","="," ","0","\n">>),
                           Cmd(0, <<"n","e","t",".","i","p","v","6",".","c","o","n","f",".","l","o",".","d","i","s","a","b","l","e","_","i","p","v","6"," ","="," ","0","\n">>)>>,
              grub |-> <<GrubPlain, Missing, Missing>>,
              ip6 |-> Cmd(0, <<" "," "," "," ","i","n","e","t","6"," ",":",":","1","/","1","2","8"," ","s","c","o","p","e"," ","h","o","s","t","\n"," "," "," "," ","i","n","e","t","6"," ","2","0","0","1",":","d","b","8",":",":","5","/","6","4"," ","s","c","o","p","e"," ","g","l","o","b","a","l","\n">>)]}
Disruptions == {<<"none", "none">>} \cup {<<c, "none">> : c \in Collectors}
               \cup {<<"none", cmd>> : cmd \in Commands}

Init == Init0 /\ host \in {Host(s, n, d, v, x[1], x[2]) :
                              s \in MainSudo, n \in MainNtp, d \in MainDns, v \in MainIpv6,
                              x \in Disruptions}
Spec == Init /\ [][Next]_vars

\* the interpreter runs the invocation on whenever it is not blocked in a call
LiveSpec == Spec /\ WF_vars(Next)

---------------------------------------------------------------------------
(* Claims.                                                                 *)

Returned(c) == CASE c = "sudo" -> pc # "sudo"
                 [] c = "ntp" -> pc \in {"dns", "sysctl", "grub", "ip6", "exit", "done"}
                 [] c = "dns" -> pc \in {"sysctl", "grub", "ip6", "exit", "done"}
                 [] c = "ipv6" -> pc \in {"exit", "done"}

FactBlocks == {"sudo_users", "ntp_settings", "dns_settings", "ipv6_status"}

\* C1: an invocation ends with exactly one result; it is either the success
\* result, which carries all four fact blocks as the collectors returned
\* them, or, when a collector raised, a failure that carries the message and
\* no fact block, whatever the earlier collectors had gathered.
C1_AllOrNothing ==
    /\ Len(output) = IF pc = "done" THEN 1 ELSE 0
    /\ raised # "none" => pc = "done"
    /\ \A i \in DOMAIN output :
          IF raised = "none"
          THEN /\ DOMAIN output[i] = FactBlocks \cup {"changed"}
               /\ output[i].changed = FALSE
               /\ output[i].sudo_users = get_sudo_users(host)
               /\ output[i].ntp_settings = ntp_info
               /\ "service" \in DOMAIN output[i].ntp_settings
               /\ output[i].dns_settings = get_dns_settings(host)
               /\ output[i].ipv6_status = ipv6_info
               /\ "disabled" \in DOMAIN output[i].ipv6_status
          ELSE /\ DOMAIN output[i] = {"failed", "msg"}
               /\ output[i].msg \in {"MemoryError", "[Errno 13] Permission denied: '/etc/sudoers.d'"}

\* a fault in the last collector, after the first three had returned facts
C1_FaultAfterFacts ==
    /\ pc = "done" /\ raised = "ipv6"
    /\ result.sudo_users # {}
    /\ result.ntp_settings.service = "chronyd"
    /\ result.dns_settings.nameservers # <<>>
    /\ DOMAIN output[1] = {"failed", "msg"}

BothPresent == host.which.chronyd = 0 /\ host.which.ntpd = 0

FirstPresent == IF host.which.chronyd = 0 THEN "chronyd"
                ELSE IF host.which.ntpd = 0 THEN "ntpd"
                ELSE IF host.which.timesyncd = 0 THEN "systemd-timesyncd"
                ELSE "unknown"

\* the presence probes among the calls, in the order they were issued
Probes == SelectSeq(calls, LAMBDA c : c \in {WhichCmd[b] : b \in Backends})

\* the calls made about a backend of lower priority than chronyd, other
\* than presence probes
LowerQueries == {c \in Range(calls) :
                    c \in {ActiveCmd.ntpd, ActiveCmd.timesyncd, ShowTimesyncCmd}}

NonePresent == \A b \in Backends : host.which[b] # 0

\* C3: when no backend binary is found the collector returns the service
\* left at its initial "no service" value (the source's 'unknown'), not
\* active, with no servers, and the invocation has not failed.
C3_NoBackend ==
    (Returned("ntp") /\ NonePresent) =>
        /\ result.ntp_settings.service = "unknown"
        /\ result.ntp_settings.enabled = FALSE
        /\ result.ntp_settings.servers = <<>>
        /\ raised = "none"
        /\ LowerQueries = {} /\ ActiveCmd.chronyd \notin Range(calls)

\* no binary found although config files and a live time source exist
C3_NoBackendReturned ==
    /\ pc = "dns" /\ NonePresent
    /\ ChronyServers(host.chrony_conf) # <<>>
    /\ NtpdServers(host.ntp_conf) # <<>>
    /\ TimesyncServers(host.timesync) # <<>>

\* the addresses in lines 'inet6 <addr>/<len> ...' of ip's output
Inet6Addrs(out) == {SplitOn[Split[l][2], "/"][1] :
                       l \in {x \in Range(SplitOn[out, "\n"]) :
                                 Len(Split[x]) >= 2 /\ Split[x][1] = <<"i","n","e","t","6">>}}

NonLoopbackFound == Inet6Addrs(host.ip6.out) \ {<<":",":","1">>} # {}

LiveQueryOk == host.ip6.rc = 0 /\ Strip[host.ip6.out] # <<>>

\* the kernel-parameter or bootloader pass found disable evidence
StaticDisabled ==
    \/ \E i \in 1..3 : host.sysctl[i].rc = 0 /\ SysctlValue(host.sysctl[i].out) = <<"1">>
    \/ \E i \in 1..3 : host.grub[i].st = "ok"
                       /\ Contains[Concat[host.grub[i].lines], <<"i","p","v","6",".","d","i","s","a","b","l","e","=","1">>]

\* C4: whenever static evidence marked IPv6 disabled and the live query
\* reports an inet6 address other than ::1, the result has disabled = false
\* and status = enabled.
C4_OverrideLaw ==
    (Returned("ipv6") /\ StaticDisabled /\ LiveQueryOk /\ NonLoopbackFound) =>
        /\ result.ipv6_status.disabled = FALSE
        /\ "status" \in DOMAIN result.ipv6_status
        /\ result.ipv6_status.status = "enabled"

\* C5: without static evidence and without a non-loopback address,
\* disabled is false and status unset; status = disabled only when no
\* non-loopback address is found and static evidence exists; when the live
\* query fails, status is unset and disabled is what the static passes found.
C5_ConjunctionLaw ==
    Returned("ipv6") =>
        LET s == result.ipv6_status
        IN  /\ (~StaticDisabled /\ LiveQueryOk /\ ~NonLoopbackFound)
                  => (s.disabled = FALSE /\ "status" \notin DOMAIN s)
            /\ ("status" \in DOMAIN s /\ s.status = "disabled")
                  => (~NonLoopbackFound /\ StaticDisabled)
            /\ ~LiveQueryOk => ("status" \notin DOMAIN s /\ s.disabled = StaticDisabled)

\* the users a readable sudoers source grants, and the members of the sudo
\* and wheel groups
Readable(fs) == {fs[i] : i \in {j \in 1..Len(fs) : fs[j].st = "ok"}}

SourcesUnion ==
    UNION {Range(SudoersLinesUsers(f.lines)) :
              f \in Readable(<<host.sudoers>> \o
                             (IF host.sudoers_d.st = "ok"
                              THEN DropInFiles(host.sudoers_d.entries) ELSE <<>>))}
    \cup (IF host.group.st = "ok" THEN Range(GroupLinesUsers(host.group.lines)) ELSE {})

\* C6: whatever sources are missing, denied or readable, get_sudo_users
\* does not raise and returns the union of what the readable ones grant.
C6_NeverRaises ==
    Returned("sudo") => (raised = "none" /\ result.sudo_users = SourcesUnion)

\* C7: every call is bounded, so even when an external tool never returns
\* the invocation ends with a result.
C7_Terminates == <>(pc = "done")

\* the address of a 'nameserver <addr>' line, the domains of a 'search' line
DirectiveArgs(line, kw) == LET t == Split[line]
                           IN  IF Len(t) >= 2 /\ t[1] = kw THEN Tail(t) ELSE <<>>

RECURSIVE ExpectedNameservers(_)
ExpectedNameservers(ls) ==
    IF ls = <<>> THEN <<>>
    ELSE LET a == DirectiveArgs(Head(ls), <<"n","a","m","e","s","e","r","v","e","r">>)
         IN  (IF a = <<>> THEN <<>> ELSE <<a[1]>>) \o ExpectedNameservers(Tail(ls))

RECURSIVE ExpectedSearch(_)
ExpectedSearch(ls) ==
    IF ls = <<>> THEN <<>>
    ELSE DirectiveArgs(Head(ls), <<"s","e","a","r","c","h">>) \o ExpectedSearch(Tail(ls))

IsComment(line) == LStrip[line] # <<>> /\ Head(LStrip[line]) = "#"

C9_NoDuplicateMethods ==
    pc \in {"grub", "ip6", "exit", "done"} =>
        \A i, j \in DOMAIN ipv6_info.disable_method :
            i # j => ipv6_info.disable_method[i] # ipv6_info.disable_method[j]

\* C10: the returned sudo users never include the empty name.
C10_NoEmptyMember ==
    (Returned("sudo") /\ raised = "none") => <<>> \notin result.sudo_users

=============================================================================
